---- MODULE Spec2Model ----
(***************************************************************************)
(* color_changer: conversions between the RGB-255 and CMYK colour models   *)
(* and the hexadecimal codec of the Color trait (src/src/lib.rs,           *)
(* src/src/rgb.rs, src/src/cmyk.rs).                                       *)
(*                                                                         *)
(* The crate is a library of pure functions.  The state machine below is a *)
(* caller that holds a value and applies one library operation per step;   *)
(* the variables record the operand, the result and the outcome of the     *)
(* last call.                                                              *)
(*                                                                         *)
(* Text is a sequence of one-character strings.  An f64 is an exact        *)
(* rational [n, d] (d = 0 stands for NaN and the infinities) with a flag   *)
(* `lo` that records the one place where the binary64 evaluation differs   *)
(* observably from the exact value (see F64TieBelow).                      *)
(***************************************************************************)
EXTENDS Integers, Sequences, FiniteSets

VARIABLES hist, s, fl, x, a, r, out

vars == <<hist, s, fl, x, a, r, out>>

(***************************************************************************)
(* Bounds of the model.                                                    *)
(***************************************************************************)
\* b channel of the exhaustive RGB inputs ranges over 0..MaxBlue (r and g
\* range over all of u8, so every pair (channel, maximum) occurs)
MaxBlue == 0
\* longest enumerated input text of from_hex
MaxLen == 7
\* CMYK::new arguments are the grid points n / FloatDen for
\* n in -MaxOver .. FloatDen + MaxOver
MaxOver == 1
\* number of low (0..MaxLow) and high (255-MaxLow..255) channel values of
\* the sampled RGB inputs
MaxLow == 2

(***************************************************************************)
(* Program constants.                                                      *)
(***************************************************************************)
U8_MAX == 255
U16_MAX == 65535
FloatDen == 4

(***************************************************************************)
(* Values.                                                                 *)
(***************************************************************************)
RGB_new(cr, cg, cb) == [ty |-> "RGB", p |-> <<cr, cg, cb>>]

RGB_BLACK == RGB_new(0, 0, 0)

RGB_WHITE == RGB_new(255, 255, 255)

RGB_as_parts(c) == c.p

\* Iterator::any in place of Iterator::all
RGB_is_black_any(c) == \E i \in 1..Len(RGB_as_parts(c)) : RGB_as_parts(c)[i] = 0

RGB_is_black(c) == \A i \in 1..Len(RGB_as_parts(c)) : RGB_as_parts(c)[i] = 0

from_parts(parts) == [ty |-> "CMYK", p |-> parts]

CMYK_BLACK == from_parts(<<0, 0, 0, U16_MAX>>)

CMYK_WHITE == from_parts(<<0, 0, 0, 0>>)

as_int_parts(c) == c.p

\* the value a panicking call leaves behind (no value is produced)
NoColor == [ty |-> "none", p |-> <<>>]

(***************************************************************************)
(* f64 arithmetic.                                                         *)
(***************************************************************************)
Float(n, d) == [n |-> n, d |-> d, lo |-> FALSE]

NaN == Float(0, 0)

\* f64 division: x / 0.0 is NaN or an infinity, never a trap
FDiv(n, d) == IF d = 0 THEN NaN ELSE Float(n, d)

Max(S) == CHOOSE m \in S : \A e \in S : e <= m

\* <<M, V>>: for a colour whose largest channel is M and a channel value in
\* V, the exact value of 65535 * (M - v) / M is a half-integer h + 1/2 and
\* the binary64 evaluation of ((1.0 - v/255.0 - k) / (1.0 - k)) * 65535.0
\* with k = 1.0 - M/255.0 lies strictly below it, so that round() yields h.
\* (For every other pair round() of the binary64 product equals round() of
\* the exact product.)
F64TieBelow ==
    {<<6, {5}>>,
     <<10, {5, 7, 9}>>,
     <<18, {15}>>,
     <<20, {6, 14, 18}>>,
     <<24, {12}>>,
     <<26, {13}>>,
     <<30, {5, 7, 13, 21, 29}>>,
     <<34, {5, 7, 13, 15, 21, 23, 25, 29, 31, 33}>>,
     <<36, {6, 30}>>,
     <<40, {12, 28}>>,
     <<42, {7, 21}>>,
     <<50, {5, 15, 45}>>,
     <<54, {45}>>,
     <<56, {28}>>,
     <<58, {29}>>,
     <<60, {6, 14}>>,
     <<66, {55}>>,
     <<68, {6, 14, 22, 30, 38, 46, 50, 54, 58, 62, 66}>>,
     <<70, {7, 21}>>,
     <<72, {12, 60}>>,
     <<78, {13}>>,
     <<84, {14, 70}>>,
     <<86, {43}>>,
     <<88, {44}>>,
     <<90, {21}>>,
     <<100, {30, 70, 90}>>,
     <<102, {13, 29, 43, 45, 53, 59, 61, 75, 77, 91, 93}>>,
     <<108, {90}>>,
     <<110, {77}>>,
     <<114, {95}>>,
     <<118, {59}>>,
     <<120, {12, 28, 44, 60, 76, 92, 108}>>,
     <<126, {21}>>,
     <<130, {13, 91}>>,
     <<132, {22}>>,
     <<136, {12, 28, 44, 60, 76, 92, 108, 124, 132}>>,
     <<138, {23}>>,
     <<140, {14}>>,
     <<148, {74}>>,
     <<150, {5, 75, 125}>>,
     <<152, {76}>>,
     <<154, {77}>>,
     <<162, {135}>>,
     <<168, {28, 140}>>,
     <<170, {5, 7, 13, 21, 23, 29, 37, 39, 43, 45, 53, 55, 59, 61, 71, 75, 77, 87, 91, 93, 95, 103, 107, 109, 111, 119, 123, 125, 127, 129, 133, 135, 137, 141, 143, 145, 149, 151, 153, 157, 159, 161, 165, 167, 169}>>,
     <<174, {29}>>,
     <<180, {30, 90}>>,
     <<182, {91}>>,
     <<184, {92}>>,
     <<186, {31, 93}>>,
     <<198, {165}>>,
     <<200, {140, 180}>>,
     <<204, {22, 54, 86, 90, 106, 122}>>,
     <<210, {21, 91, 119, 133, 175, 189}>>,
     <<212, {106}>>,
     <<214, {107}>>,
     <<216, {108, 180}>>,
     <<218, {109}>>,
     <<222, {37}>>,
     <<228, {38}>>,
     <<234, {39}>>,
     <<238, {63, 77, 91}>>,
     <<244, {122}>>,
     <<246, {123}>>,
     <<248, {124}>>,
     <<250, {125, 225}>>}

TieBelow(M, v) == \E e \in F64TieBelow : e[1] = M /\ v \in e[2]

\* the lower bound of the range check left out
valid_cmyk_float_upper(f) == f.d /= 0 /\ f.n <= f.d

valid_cmyk_float(f) == f.d /= 0 /\ 0 <= f.n /\ f.n <= f.d

\* the cast without the round(): (f * 65535.0) as u16 truncates
conv_to_int_trunc(f) ==
    IF ~valid_cmyk_float(f) THEN -1 ELSE (U16_MAX * f.n) \div f.d

\* (f * 65535.0).round() as u16; -1 when the assertion fails (panic)
conv_to_int(f) ==
    IF ~valid_cmyk_float(f) THEN -1
    ELSE LET num == U16_MAX * f.n
             q   == num \div f.d
             rem == num % f.d
         IN  IF 2 * rem > f.d \/ (2 * rem = f.d /\ ~f.lo) THEN q + 1 ELSE q

conv_to_float(i) == Float(i, U16_MAX)

CMYK_as_parts(c) == [i \in 1..4 |-> conv_to_float(c.p[i])]

\* CMYK::new: the four conversions, then from_parts; NoColor on panic
CMYK_new(c, m, y, k) ==
    LET parts == <<conv_to_int(c), conv_to_int(m), conv_to_int(y), conv_to_int(k)>>
    IN  IF \E i \in 1..4 : parts[i] = -1 THEN NoColor ELSE from_parts(parts)

(***************************************************************************)
(* impl Color for CMYK, impl Color for RGB, trait Color.                   *)
(***************************************************************************)
RECURSIVE MulDivMod(_, _, _)
\* <<q, rem>> with m * n = q * d + rem and 0 <= rem < d, by binary descent
\* on n so that no intermediate value leaves the 32-bit range
MulDivMod(m, n, d) ==
    IF n = 0 THEN <<0, 0>>
    ELSE LET h == MulDivMod(m, n \div 2, d)
             t == 2 * h[2] + (n % 2) * m
         IN  <<2 * h[1] + t \div d, t % d>>

\* `as u8` of a non-negative rounded f64 (the cast saturates)
AsU8(n) == IF n < 0 THEN 0 ELSE IF n > U8_MAX THEN U8_MAX ELSE n

\* the channel cast without the round()
Channel255_trunc(c, k) ==
    MulDivMod(c.d - c.n, k.d - k.n, (c.d \div U8_MAX) * k.d)[1]

\* (255.0 * (1.0 - c) * (1.0 - k)).round() for c, k of denominator 65535:
\* the exact value is (c.d - c.n) * (k.d - k.n) / (257 * 65535), never a
\* half-integer, and the binary64 error is far below its distance to one
Channel255(c, k) ==
    LET d  == (c.d \div U8_MAX) * k.d
        qr == MulDivMod(c.d - c.n, k.d - k.n, d)
    IN  IF 2 * qr[2] >= d THEN qr[1] + 1 ELSE qr[1]

CMYK_as_rgb(c) ==
    LET parts == CMYK_as_parts(c)
    IN  RGB_new(AsU8(Channel255(parts[1], parts[4])),
                AsU8(Channel255(parts[2], parts[4])),
                AsU8(Channel255(parts[3], parts[4])))

\* from_rgb without the early return for black
CMYK_from_rgb_noblack(c) ==
    LET M  == Max({c.p[1], c.p[2], c.p[3]})
        kn == U8_MAX - M
        ch(v) == [FDiv((U8_MAX - v) - kn, U8_MAX - kn) EXCEPT !.lo = TieBelow(M, v)]
    IN  CMYK_new(ch(c.p[1]), ch(c.p[2]), ch(c.p[3]), Float(kn, U8_MAX))

CMYK_from_rgb(c) ==
    IF RGB_is_black(c) THEN CMYK_BLACK
    ELSE LET M  == Max({c.p[1], c.p[2], c.p[3]})
             kn == U8_MAX - M
             ch(v) == [FDiv((U8_MAX - v) - kn, U8_MAX - kn) EXCEPT !.lo = TieBelow(M, v)]
         IN  CMYK_new(ch(c.p[1]), ch(c.p[2]), ch(c.p[3]), Float(kn, U8_MAX))

RGB_into_rgb(c) == c

RGB_as_rgb(c) == c

RGB_from_rgb(c) == c

as_rgb(v) == IF v.ty = "RGB" THEN RGB_as_rgb(v) ELSE CMYK_as_rgb(v)

\* the default method forwards to as_rgb; RGB overrides it
into_rgb(v) == IF v.ty = "RGB" THEN RGB_into_rgb(v) ELSE as_rgb(v)

from_rgb(U, c) == IF U = "RGB" THEN RGB_from_rgb(c) ELSE CMYK_from_rgb(c)

into_color(U, v) == from_rgb(U, into_rgb(v))

as_color(U, v) == from_rgb(U, as_rgb(v))

\* from_color building the type of its argument instead of Self
from_color_self(U, c) == from_rgb(c.ty, into_rgb(c))

from_color(U, c) == from_rgb(U, into_rgb(c))

(***************************************************************************)
(* Display.                                                                *)
(***************************************************************************)
UpperDigits == <<"0", "1", "2", "3", "4", "5", "6", "7", "8", "9",
                 "A", "B", "C", "D", "E", "F">>

\* {:X} in place of {:02X}: no zero padding
UpperHex(n) ==
    IF n < 16 THEN <<UpperDigits[n + 1]>>
    ELSE <<UpperDigits[(n \div 16) + 1], UpperDigits[(n % 16) + 1]>>

\* {:02X} of a u8
UpperHex02(n) ==
    IF n < 16 THEN <<"0", UpperDigits[n + 1]>>
    ELSE <<UpperDigits[(n \div 16) + 1], UpperDigits[(n % 16) + 1]>>

RGB_fmt(c) == UpperHex02(c.p[1]) \o UpperHex02(c.p[2]) \o UpperHex02(c.p[3])

\* {:.2} of an f64 in [0, 1]: the decimal expansion rounded to hundredths
\* (i / 65535 is never halfway between two hundredths)
Fixed2(f) ==
    LET h == (200 * f.n + f.d) \div (2 * f.d)
    IN  <<UpperDigits[(h \div 100) + 1], ".",
          UpperDigits[((h \div 10) % 10) + 1], UpperDigits[(h % 10) + 1]>>

CMYK_fmt(c) ==
    <<"(">> \o Fixed2(conv_to_float(c.p[1])) \o <<",">>
            \o Fixed2(conv_to_float(c.p[2])) \o <<",">>
            \o Fixed2(conv_to_float(c.p[3])) \o <<",">>
            \o Fixed2(conv_to_float(c.p[4])) \o <<")">>

to_string(v) == IF v.ty = "RGB" THEN RGB_fmt(v) ELSE CMYK_fmt(v)

as_hex(v) == to_string(as_rgb(v))

(***************************************************************************)
(* Color::from_hex.                                                        *)
(***************************************************************************)
LowerDigits == <<"0", "1", "2", "3", "4", "5", "6", "7", "8", "9",
                 "a", "b", "c", "d", "e", "f">>

\* the character class [0-9a-fA-F]
IsHexDigit(ch) == \E i \in 1..16 : UpperDigits[i] = ch \/ LowerDigits[i] = ch

\* char::to_digit(16)
DigitValue(ch) == (CHOOSE i \in 1..16 : UpperDigits[i] = ch \/ LowerDigits[i] = ch) - 1

\* a capture group that did not take part in the match (Option::None)
NoGroup == <<"None">>

\* the text t matched by #?([0-9a-fA-F]{2})([0-9a-fA-F]{2})([0-9a-fA-F]{2})
\* starting at position i: 0 if none, else the position of the first digit
MatchAt(t, i) ==
    LET hex6(j) == j + 5 <= Len(t) /\ \A n \in j..(j + 5) : IsHexDigit(t[n])
    IN  IF t[i] = "#" /\ hex6(i + 1) THEN i + 1
        ELSE IF hex6(i) THEN i
        ELSE 0

\* the groups taken in the order B, G, R
HEX_RE_captures_bgr(t) ==
    LET starts == {i \in 1..Len(t) : MatchAt(t, i) /= 0}
    IN  IF starts = {} THEN <<>>
        ELSE LET first == CHOOSE i \in starts : \A j \in starts : i <= j
                 dg    == MatchAt(t, first)
             IN  <<SubSeq(t, dg + 4, dg + 5), SubSeq(t, dg + 2, dg + 3),
                   SubSeq(t, dg, dg + 1)>>

\* HEX_RE.captures(t): <<>> if the pattern matches nowhere in t, else the
\* three groups of the leftmost match (the pattern is not anchored)
HEX_RE_captures(t) ==
    LET starts == {i \in 1..Len(t) : MatchAt(t, i) /= 0}
    IN  IF starts = {} THEN <<>>
        ELSE LET first == CHOOSE i \in starts : \A j \in starts : i <= j
                 dg    == MatchAt(t, first)
             IN  <<SubSeq(t, dg, dg + 1), SubSeq(t, dg + 2, dg + 3),
                   SubSeq(t, dg + 4, dg + 5)>>

RECURSIVE from_str_radix_10(_, _)
\* the groups parsed with radix 10
from_str_radix_10(t, acc) ==
    IF acc = -1 \/ ~IsHexDigit(Head(t)) \/ DigitValue(Head(t)) > 9 THEN -1
    ELSE LET n == acc * 10 + DigitValue(Head(t))
         IN  IF n > U8_MAX THEN -1
             ELSE IF Len(t) = 1 THEN n
             ELSE from_str_radix_10(Tail(t), n)

RECURSIVE from_str_radix(_, _)
\* u8::from_str_radix(t, 16) continued from the accumulator acc; -1 is Err
\* (an empty text, a character that is no digit, or a value above u8::MAX)
from_str_radix(t, acc) ==
    IF acc = -1 \/ ~IsHexDigit(Head(t)) THEN -1
    ELSE LET n == acc * 16 + DigitValue(Head(t))
         IN  IF n > U8_MAX THEN -1
             ELSE IF Len(t) = 1 THEN n
             ELSE from_str_radix(Tail(t), n)

ParseU8(t) == IF t = <<>> THEN -1 ELSE from_str_radix(t, 0)

\* T::from_hex(t): [out, val]
from_hex(T, t) ==
    LET matches == HEX_RE_captures(t)
    IN  IF matches = <<>> THEN [out |-> "BadInput", val |-> NoColor]
        ELSE IF \E i \in 1..Len(matches) : matches[i] = NoGroup
             THEN [out |-> "Panic", val |-> NoColor]
        ELSE LET rgb == [i \in 1..Len(matches) |-> ParseU8(matches[i])]
             IN  IF \E i \in 1..Len(rgb) : rgb[i] = -1
                 THEN [out |-> "ParseFailure", val |-> NoColor]
                 ELSE IF Len(rgb) /= 3 THEN [out |-> "Panic", val |-> NoColor]
                 ELSE LET c == from_rgb(T, RGB_new(rgb[1], rgb[2], rgb[3]))
                      IN  IF c = NoColor THEN [out |-> "Panic", val |-> NoColor]
                          ELSE [out |-> "Ok", val |-> c]

(***************************************************************************)
(* Inputs.                                                                 *)
(***************************************************************************)
U8 == 0..U8_MAX

\* "#EDBBF3", the colour of the crate's test
TestHex == <<"#", "E", "D", "B", "B", "F", "3">>

TestRGB == RGB_new(237, 187, 243)

SampleChannels == (0..MaxLow) \cup ((U8_MAX - MaxLow)..U8_MAX) \cup {10, 5, 237, 187, 243}

SampleRGB == {RGB_new(cr, cg, cb) : cr \in SampleChannels, cg \in SampleChannels,
                                    cb \in SampleChannels}

\* arguments of CMYK::new: a grid of exactly representable f64, and NaN
FloatArgs == {Float(n, FloatDen) : n \in (0 - MaxOver)..(FloatDen + MaxOver)} \cup {NaN}

NoFloats == <<NaN, NaN, NaN, NaN>>

\* '#', which is also the character that is no hex digit, two digits of
\* different value and the two cases of one letter
Alphabet == {"#", "1", "a", "A"}

\* the texts of n characters over the alphabet
TextsOfLen(n) == [1..n -> Alphabet]

Literals ==
    { TestHex,
      <<"#", "0", "0", "0", "0", "0", "0">>,
      <<"n", "o", "t", " ", "a", " ", "c", "o", "l", "o", "r">>,
      <<"1", "2", "3", "4", "5", "6">>,
      <<"f", "e", "D", "C", "b", "a">>,
      <<"x", "#", "1", "2", "3", "4", "5", "6", "y">>,
      <<"g", "1", "a", "A", "1", "a", "A">>,
      <<"1", "a", "A", "1", "a", "A", "g">>,
      <<"1", "a", "g", "1", "a", "A">> }

Types == {"RGB", "CMYK"}

(***************************************************************************)
(* The caller.                                                             *)
(*   hist  the calls made so far, <<method, type parameter>> each          *)
(*   s     the text at hand (argument of from_hex, result of as_hex or     *)
(*         to_string)                                                      *)
(*   fl    the arguments of CMYK::new                                      *)
(*   r     the value at hand: the result of the last call                  *)
(*   a     the operand of the last call, x the operand of the one before   *)
(*   out   "Ok", "BadInput", "ParseFailure" or "Panic" for the last call   *)
(***************************************************************************)
Called(n) == IF n <= Len(hist) /\ n >= 1 THEN hist[n][1] ELSE "-"

LastCall == Called(Len(hist))

\* a call returning a colour (NoColor: the call panicked)
Returns(method, U, val) ==
    /\ hist' = Append(hist, <<method, U>>)
    /\ x' = a
    /\ a' = r
    /\ r' = val
    /\ out' = IF val = NoColor THEN "Panic" ELSE "Ok"
    /\ UNCHANGED <<s, fl>>

\* a call returning text
ReturnsText(method, text) ==
    /\ hist' = Append(hist, <<method, "-">>)
    /\ x' = a
    /\ a' = r
    /\ s' = text
    /\ UNCHANGED <<r, fl, out>>

HasColor == out = "Ok" /\ r /= NoColor

New ==
    /\ hist = <<>> /\ r = NoColor /\ fl /= NoFloats
    /\ Returns("new", "CMYK", CMYK_new(fl[1], fl[2], fl[3], fl[4]))

IntoRgb ==
    /\ HasColor /\ Len(hist) <= 1 /\ LastCall \in {"-", "new", "into_color"}
    /\ Returns("into_rgb", "-", into_rgb(r))

AsRgb ==
    /\ HasColor /\ Len(hist) <= 1 /\ LastCall \in {"-", "new"}
    /\ Returns("as_rgb", "-", as_rgb(r))

IntoColor(U) ==
    /\ HasColor /\ Len(hist) <= 1 /\ LastCall \in {"-", "new", "from_hex"}
    /\ Returns("into_color", U, into_color(U, r))

AsColor(U) ==
    /\ HasColor /\ Len(hist) <= 1 /\ LastCall \in {"-", "new"}
    /\ Returns("as_color", U, as_color(U, r))

FromColor(U) ==
    /\ HasColor /\ Len(hist) <= 1 /\ LastCall \in {"-", "new"}
    /\ Returns("from_color", U, from_color(U, r))

ToString ==
    /\ HasColor /\ LastCall \in {"into_color", "from_hex"}
    /\ ReturnsText("to_string", to_string(r))

AsHex ==
    /\ HasColor /\ Len(hist) <= 1 /\ LastCall \in {"-", "new", "from_hex"}
    /\ ReturnsText("as_hex", as_hex(r))

FromHex(T) ==
    /\ \/ hist = <<>> /\ r = NoColor /\ fl = NoFloats
       \/ Len(hist) = 1 /\ LastCall = "as_hex"
    /\ LET res == from_hex(T, s)
       IN  /\ hist' = Append(hist, <<"from_hex", T>>)
           /\ x' = a
           /\ a' = r
           /\ r' = res.val
           /\ out' = res.out
           /\ UNCHANGED <<s, fl>>

Start(val, text, floats) ==
    /\ hist = <<>>
    /\ s = text
    /\ fl = floats
    /\ x = NoColor
    /\ a = NoColor
    /\ r = val
    /\ out = "Ok"

\* RGB -> CMYK -> RGB and the Display of the CMYK: every (r, g) with a few
\* b, so that every pair (channel value, largest channel) occurs
InitCmyk ==
    \/ \E cr \in U8, cg \in U8, cb \in 0..MaxBlue : Start(RGB_new(cr, cg, cb), <<>>, NoFloats)
    \/ \E c \in {TestRGB, RGB_WHITE, RGB_new(0, 0, 1)} : Start(c, <<>>, NoFloats)
    \/ Start(NoColor, TestHex, NoFloats)

NextCmyk ==
    \/ FromHex("RGB")
    \/ IntoColor("CMYK")
    \/ IntoRgb
    \/ ToString

SpecCmyk == InitCmyk /\ [][NextCmyk]_vars

\* the constructor and the conversions of the trait
InitColor ==
    \/ \E c \in SampleRGB : Start(c, <<>>, NoFloats)
    \/ \E f \in FloatArgs \X FloatArgs \X FloatArgs \X FloatArgs :
          f /= NoFloats /\ Start(NoColor, <<>>, f)

NextColor ==
    \/ New
    \/ IntoRgb
    \/ AsRgb
    \/ \E U \in Types : IntoColor(U)
    \/ \E U \in Types : AsColor(U)
    \/ \E U \in Types : FromColor(U)

SpecColor == InitColor /\ [][NextColor]_vars

\* the hex codec
InitHex ==
    \/ \E n \in 0..MaxLen : \E t \in TextsOfLen(n) : Start(NoColor, t, NoFloats)
    \/ \E t \in Literals : Start(NoColor, t, NoFloats)
    \/ \E c \in SampleRGB : Start(c, <<>>, NoFloats)
    \/ \E v \in U8, w \in SampleChannels :
          \E c \in {RGB_new(v, w, w), RGB_new(w, v, w), RGB_new(w, w, v)} :
             Start(c, <<>>, NoFloats)

NextHex ==
    \/ \E T \in Types : FromHex(T)
    \/ AsHex

SpecHex == InitHex /\ [][NextHex]_vars

(***************************************************************************)
(* Properties.                                                             *)
(***************************************************************************)
LastT == hist[Len(hist)][2]

\* the value of a hexadecimal digit, upper or lower case
HexValueOf(ch) ==
    CASE ch = "0" -> 0 [] ch = "1" -> 1 [] ch = "2" -> 2 [] ch = "3" -> 3
      [] ch = "4" -> 4 [] ch = "5" -> 5 [] ch = "6" -> 6 [] ch = "7" -> 7
      [] ch = "8" -> 8 [] ch = "9" -> 9
      [] ch \in {"a", "A"} -> 10 [] ch \in {"b", "B"} -> 11
      [] ch \in {"c", "C"} -> 12 [] ch \in {"d", "D"} -> 13
      [] ch \in {"e", "E"} -> 14 [] ch \in {"f", "F"} -> 15
      [] OTHER -> -1

IsHex(ch) == HexValueOf(ch) >= 0

\* the whole text matches ^#?[0-9a-fA-F]{6}$
IsHexColor(t) ==
    \/ Len(t) = 6 /\ \A i \in 1..6 : IsHex(t[i])
    \/ Len(t) = 7 /\ t[1] = "#" /\ \A i \in 2..7 : IsHex(t[i])

\* the digits of a text that matches: the text without its '#'
DigitsOf(t) == IF t[1] = "#" THEN Tail(t) ELSE t

PairValue(t, i) == 16 * HexValueOf(t[i]) + HexValueOf(t[i + 1])

\* C1: after from_hex on a text that does not match ^#?[0-9a-fA-F]{6}$ as
\* a whole, the outcome is Err(BadInput).
C1_RejectsNonMatching ==
    (LastCall = "from_hex" /\ ~IsHexColor(s)) => out = "BadInput"

\* C10: from_hex ends in Ok(color) or Err(BadInput) and nothing else:
\* never ParseFailure, never a panic; when the pattern matches there are
\* three groups, each present and each a base-16 byte, and the result is
\* a colour of the requested type; otherwise no colour is produced.
C10_OkOrBadInput ==
    LastCall = "from_hex" =>
        LET m == HEX_RE_captures(s)
        IN  /\ out \in {"Ok", "BadInput"}
            /\ (out = "Ok") = (m /= <<>>)
            /\ out = "Ok" => r.ty = LastT
            /\ out = "BadInput" => r = NoColor
            /\ m /= <<>> =>
                  /\ Len(m) = 3
                  /\ \A i \in 1..3 : m[i] /= NoGroup /\ ParseU8(m[i]) \in U8

C10_Witness ==
    /\ LastCall = "from_hex" /\ out = "Ok" /\ LastT = "CMYK"
    /\ s = <<"1", "a", "A", "a", "A", "1">>
    /\ r = from_parts(<<55512, 0, 3469, 21845>>)

\* C6: on six hex digits with or without a leading '#', in any case mix,
\* T::from_hex is Ok(T::from_rgb(RGB::new(r, g, b))) with r, g, b the
\* base-16 values of the first, second and third pair of digits.
C6_ParsesPairsInOrder ==
    (LastCall = "from_hex" /\ IsHexColor(s)) =>
        LET d == DigitsOf(s)
        IN  /\ out = "Ok"
            /\ r = from_rgb(LastT, RGB_new(PairValue(d, 1), PairValue(d, 3),
                                           PairValue(d, 5)))

C6_Witness ==
    /\ LastCall = "from_hex" /\ out = "Ok" /\ LastT = "RGB"
    /\ s = <<"#", "1", "a", "A", "1", "a", "A">>
    /\ r = RGB_new(26, 161, 170)

\* C7: as_hex of an RGB is its to_string: six uppercase hex digits, two per
\* channel in R, G, B order, no '#'; RGB::from_hex of it is Ok of the same
\* RGB.
C7_AsHexRoundTrip ==
    /\ (LastCall = "as_hex" /\ r.ty = "RGB") =>
          /\ s = to_string(r)
          /\ Len(s) = 6
          /\ \A i \in 1..6 : \E j \in 1..16 : s[i] = UpperDigits[j]
          /\ \A i \in 1..3 : PairValue(s, 2 * i - 1) = RGB_as_parts(r)[i]
    /\ (r = RGB_BLACK /\ LastCall = "as_hex") => s = <<"0", "0", "0", "0", "0", "0">>
    /\ (r = RGB_WHITE /\ LastCall = "as_hex") => s = <<"F", "F", "F", "F", "F", "F">>
    /\ (Len(hist) = 2 /\ Called(1) = "as_hex" /\ LastCall = "from_hex"
          /\ LastT = "RGB" /\ a.ty = "RGB") =>
          out = "Ok" /\ r = a

C7_Witness ==
    /\ Len(hist) = 2 /\ Called(1) = "as_hex" /\ LastCall = "from_hex" /\ LastT = "RGB"
    /\ a = RGB_new(10, 5, 254) /\ r = a
    /\ s = <<"0", "A", "0", "5", "F", "E">>

\* C4: CMYK::new panics exactly when at least one argument lies outside
\* [0.0, 1.0] (NaN included), whatever its position; otherwise the integer
\* parts are round(f * 65535) of the arguments.
C4_NewRejectsOutOfRange ==
    LastCall = "new" =>
        LET outside(f) == f.d = 0 \/ f.n < 0 \/ f.n > f.d
            scaled(f)  == (2 * 65535 * f.n + f.d) \div (2 * f.d)
        IN  /\ (out = "Panic") = (\E i \in 1..4 : outside(fl[i]))
            /\ out = "Panic" => r = NoColor
            /\ out /= "Panic" =>
                  /\ out = "Ok" /\ r.ty = "CMYK"
                  /\ \A i \in 1..4 : as_int_parts(r)[i] = scaled(fl[i])

C4_Witness ==
    /\ LastCall = "new" /\ out = "Panic"
    /\ fl[1] = Float(0, FloatDen) /\ fl[2] = Float(FloatDen, FloatDen)
    /\ fl[3] = Float(1, FloatDen) /\ fl[4] = Float(0 - 1, FloatDen)

\* C3: the black and white corners correspond in both directions, and the
\* constants are what CMYK::new(0,0,0,1) and CMYK::new(0,0,0,0) return.
C3_Corners ==
    LET zero == Float(0, FloatDen)
        one  == Float(FloatDen, FloatDen)
    IN  /\ (LastCall = "as_rgb" /\ as_int_parts(a) = <<0, 0, 0, 65535>>) => r = RGB_BLACK
        /\ (LastCall = "as_rgb" /\ as_int_parts(a) = <<0, 0, 0, 0>>) => r = RGB_WHITE
        /\ (LastCall = "as_rgb" /\ a = CMYK_BLACK) => r = RGB_new(0, 0, 0)
        /\ (LastCall = "as_rgb" /\ a = CMYK_WHITE) => r = RGB_new(255, 255, 255)
        /\ (LastCall = "into_color" /\ LastT = "CMYK" /\ a = RGB_BLACK) =>
              r = CMYK_BLACK /\ as_int_parts(r) = <<0, 0, 0, 65535>>
        /\ (LastCall = "into_color" /\ LastT = "CMYK" /\ a = RGB_WHITE) =>
              r = CMYK_WHITE /\ as_int_parts(r) = <<0, 0, 0, 0>>
        /\ (LastCall = "new" /\ fl = <<zero, zero, zero, one>>) => r = CMYK_BLACK
        /\ (LastCall = "new" /\ fl = <<zero, zero, zero, zero>>) => r = CMYK_WHITE

C3_Witness ==
    /\ Called(1) = "new" /\ LastCall = "as_rgb"
    /\ a = CMYK_BLACK /\ r = RGB_BLACK

\* C8: conversions go through the RGB pivot only and the consuming and
\* borrowing forms agree: into_rgb is as_rgb; into_color::<U>, as_color::<U>
\* and U::from_color are U::from_rgb of as_rgb; for an RGB, into_rgb, as_rgb
\* and from_rgb return the value itself.
C8_PivotAgreement ==
    /\ LastCall \in {"into_rgb", "as_rgb"} =>
          /\ r = (IF a.ty = "RGB" THEN a ELSE CMYK_as_rgb(a))
          /\ r.ty = "RGB"
    /\ LastCall \in {"into_color", "as_color", "from_color"} =>
          LET pivot == IF a.ty = "RGB" THEN a ELSE CMYK_as_rgb(a)
          IN  /\ r = (IF LastT = "RGB" THEN pivot ELSE CMYK_from_rgb(pivot))
              /\ r.ty = LastT

C8_Witness ==
    /\ Called(1) = "new" /\ LastCall = "from_color" /\ LastT = "CMYK"
    /\ a.ty = "CMYK" /\ r /= a

\* C2: an RGB converted to CMYK and back is the same RGB on all channels.
C2_RoundTrip ==
    (Len(hist) >= 2 /\ LastCall = "into_rgb" /\ Called(Len(hist) - 1) = "into_color"
        /\ x.ty = "RGB" /\ a.ty = "CMYK") => r = x

C2_Witness ==
    /\ hist = <<<<"into_color", "CMYK">>, <<"into_rgb", "-">>>>
    /\ x = RGB_new(5, 6, 0) /\ as_int_parts(a) = <<10922, 0, 65535, 63993>> /\ r = x

\* C9: CMYK::from_rgb is total: is_black holds of RGB{0,0,0} only, black
\* gives CMYK::BLACK, and for every other input 1 - k > 0, the four values
\* lie in [0.0, 1.0] and the result is a CMYK (no panic).
C9_FromRgbTotal ==
    (LastCall = "into_color" /\ LastT = "CMYK" /\ a.ty = "RGB") =>
        LET M == Max({a.p[1], a.p[2], a.p[3]})
        IN  /\ RGB_is_black(a) = (a.p = <<0, 0, 0>>)
            /\ out = "Ok" /\ r.ty = "CMYK"
            /\ \A i \in 1..4 : as_int_parts(r)[i] \in 0..65535
            /\ a.p = <<0, 0, 0>> => r = CMYK_BLACK
            /\ a.p /= <<0, 0, 0>> =>
                  /\ M > 0
                  /\ \A i \in 1..3 : valid_cmyk_float(FDiv(M - a.p[i], M))
                  /\ valid_cmyk_float(FDiv(255 - M, 255))

C9_Witness ==
    /\ LastCall = "into_color" /\ a = RGB_new(0, 0, 1)
    /\ r = from_parts(<<65535, 65535, 0, 65278>>)

\* the hundredths printed at position i of a CMYK text
Hundredths(t, i) == 100 * HexValueOf(t[i]) + 10 * HexValueOf(t[i + 2]) + HexValueOf(t[i + 3])

\* the text is "(c,m,y,k)", each part with two decimals, nearest to part / 65535
ShowsParts(t, parts) ==
    /\ Len(t) = 21
    /\ t[1] = "(" /\ t[6] = "," /\ t[11] = "," /\ t[16] = "," /\ t[21] = ")"
    /\ \A i \in 1..4 :
          LET h == Hundredths(t, 5 * i - 3)
          IN  /\ t[5 * i - 2] = "."
              /\ \A j \in {5 * i - 3, 5 * i - 1, 5 * i} : HexValueOf(t[j]) \in 0..9
              /\ 200 * parts[i] - 131070 * h <= 65535
              /\ 131070 * h - 200 * parts[i] <= 65535

TestText ==
    <<"(", "0", ".", "0", "2", ",", "0", ".", "2", "3", ",",
      "0", ".", "0", "0", ",", "0", ".", "0", "5", ")">>

DisplayedAsClaimed ==
    /\ (LastCall = "to_string" /\ r.ty = "CMYK") => ShowsParts(s, as_int_parts(r))
    /\ (LastCall = "to_string" /\ r.ty = "CMYK" /\ Called(1) = "from_hex") => s = TestText
    /\ (LastCall = "to_string" /\ r.ty = "CMYK" /\ x = TestRGB) => s = TestText

\* C5 as stated: for a non-black RGB with largest channel M, k is
\* round(65535 * (255 - M) / 255) and the part of a channel v is
\* round(65535 * (M - v) / M); Display prints part / 65535 with two
\* decimals; #EDBBF3 prints as (0.02,0.23,0.00,0.05).
C5_Original ==
    /\ (LastCall = "into_color" /\ LastT = "CMYK" /\ a.ty = "RGB" /\ a.p /= <<0, 0, 0>>) =>
          LET M == Max({a.p[1], a.p[2], a.p[3]})
          IN  /\ as_int_parts(r)[4] = (2 * 65535 * (255 - M) + 255) \div 510
              /\ \A i \in 1..3 :
                    as_int_parts(r)[i] = (2 * 65535 * (M - a.p[i]) + M) \div (2 * M)
    /\ DisplayedAsClaimed

\* C5 as amended: k is round(65535 * (255 - M) / 255); the part of a
\* channel v is an integer nearest to 65535 * (M - v) / M, which is
\* round(...) unless that value is exactly halfway between two integers,
\* where it is either of the two; the Display part is as stated.
C5_NearestPart ==
    /\ (LastCall = "into_color" /\ LastT = "CMYK" /\ a.ty = "RGB" /\ a.p /= <<0, 0, 0>>) =>
          LET M == Max({a.p[1], a.p[2], a.p[3]})
          IN  /\ as_int_parts(r)[4] = (2 * 65535 * (255 - M) + 255) \div 510
              /\ \A i \in 1..3 :
                    LET part  == as_int_parts(r)[i]
                        exact == 65535 * (M - a.p[i])
                    IN  /\ 2 * (part * M - exact) <= M
                        /\ 2 * (exact - part * M) <= M
    /\ DisplayedAsClaimed

C5_Witness ==
    /\ hist = <<<<"from_hex", "RGB">>, <<"into_color", "CMYK">>, <<"to_string", "-">>>>
    /\ x = TestRGB /\ as_int_parts(r) = <<1618, 15103, 0, 3084>>
    /\ s = TestText

====
